---- MODULE Spec2Model ----
(***************************************************************************)
(* Conversation routing, session memory and readiness gate of the AIDE ADK *)
(* agent server (config/settings.py, agent-server/main.py,                 *)
(* agents/orchestrator.py, storage/local_storage.py).                      *)
(***************************************************************************)
EXTENDS Integers, Sequences, FiniteSets, TLC

(***************************************************************************)
(* Bounds of the model.                                                    *)
(***************************************************************************)
\* keyword phrases a modelled user message is built from
MaxPhrases == 2
\* longest stored message history handed to the routing policy on its own
MaxHist == 2
\* appends to one session log in the system specification
MaxLog == 6
\* appends to one session log in the long-conversation specification
MaxLongLog == 53
\* appends to the session logs in the all-requests specification
MaxOpsLog == 3
\* generated files tracked in a project before generation is asked again
MaxGenerated == 2

(***************************************************************************)
(* Agent Catalog (config/settings.py, orchestrator.py).                    *)
(***************************************************************************)
AGENT_CHAIN ==
    << "requirements_evolver", "ux_architect", "ui_designer",
       "frontend_engineer", "data_architect", "api_designer", "devops" >>

ChainAgents == { AGENT_CHAIN[i] : i \in 1..Len(AGENT_CHAIN) }

\* the keys of instructions_map: the chain plus the terminal code generator
AgentIds == ChainAgents \cup { "code_generator" }

\* Python's None in an agent field
NoAgent == "None"

\* list.index of an element that is in the list (1-based here)
IndexOf(seq, x) == CHOOSE i \in 1..Len(seq) : seq[i] = x

(***************************************************************************)
(* Text.  A user message is modelled by the keyword phrases that occur in  *)
(* it and by its letter case: the routing code only ever asks              *)
(* `keyword in message.lower()`.  A phrase that occurs brings along every  *)
(* keyword that is a substring of it.                                      *)
(***************************************************************************)
approval_keywords ==
    << "approved", "perfect", "looks good", "proceed", "move forward",
       "next phase", "next agent", "switch to", "yes", "sure", "go ahead",
       "continue", "next", "ready", "sounds good" >>

\* the agent_keywords dict, in its declared (iteration) order
KeywordOrder ==
    << "requirements_evolver", "ux_architect", "ui_designer",
       "data_architect", "api_designer", "frontend_engineer", "devops" >>

agent_keywords(a) ==
    CASE a = "requirements_evolver" ->
           << "requirements", "what i want", "project goal", "objective" >>
      [] a = "ux_architect" ->
           << "navigate", "user flow", "ux", "experience", "usability",
              "interface", "flow", "navigation", "user journey" >>
      [] a = "ui_designer" ->
           << "change design", "change color", "ui design", "ui", "design",
              "color", "style", "theme", "look", "appearance" >>
      [] a = "data_architect" ->
           << "database", "data", "store", "save", "storage", "persist",
              "db", "sql", "information" >>
      [] a = "api_designer" ->
           << "api", "backend", "server", "endpoint", "rest", "json",
              "backend", "server-side" >>
      [] a = "frontend_engineer" ->
           << "javascript", "react", "vue", "frontend", "client", "browser",
              "technical", "implementation", "code", "functionality" >>
      [] a = "devops" ->
           << "deploy", "host", "server", "domain", "production", "cloud",
              "hosting", "deployment", "server" >>
      [] OTHER -> << >>

Range(seq) == { seq[i] : i \in 1..Len(seq) }

AllKeywords ==
    Range(approval_keywords) \cup
    UNION { Range(agent_keywords(KeywordOrder[i])) : i \in 1..Len(KeywordOrder) }

\* keywords that are substrings of the phrase kw (Python's `in` on str)
SubPhrases(kw) ==
    CASE kw = "change color"  -> { "color" }
      [] kw = "change design" -> { "design" }
      [] kw = "database"      -> { "data" }
      [] kw = "deployment"    -> { "deploy" }
      [] kw = "hosting"       -> { "host" }
      [] kw = "looks good"    -> { "look" }
      [] kw = "next agent"    -> { "next" }
      [] kw = "next phase"    -> { "next" }
      [] kw = "requirements"  -> { "ui" }
      [] kw = "server-side"   -> { "server" }
      [] kw = "ui design"     -> { "design", "ui" }
      [] kw = "user flow"     -> { "flow" }
      [] OTHER                -> { }

Occurring(S) == S \cup UNION { SubPhrases(k) : k \in S }

RECURSIVE PhraseSets(_)
PhraseSets(n) ==
    IF n = 0 THEN { {} }
    ELSE LET prev == PhraseSets(n - 1)
         IN  prev \cup { s \cup {k} : s \in prev, k \in AllKeywords }

\* a text: `upper` says it is written in capitals, `phrases` what occurs in it
Text(u, S) == [ upper |-> u, phrases |-> Occurring(S) ]

\* str.lower()
Lower(m) == [ m EXCEPT !.upper = FALSE ]

(***************************************************************************)
(* Values that are not text: None (a JSON null, a missing response) and a  *)
(* number (a JSON number).  Neither has the methods of str; None is falsy, *)
(* the number 123 is not.                                                  *)
(***************************************************************************)
None == [ value |-> "None" ]
Number == [ value |-> "123" ]
IsStr(v) == "phrases" \in DOMAIN v
AttributeError == "AttributeError"

\* `kw in text`, case-sensitive, for a lower-case keyword kw
Contains(m, kw) == ~m.upper /\ kw \in m.phrases

\* any(keyword in text for keyword in keywords)
AnyIn(m, keywords) == \E i \in 1..Len(keywords) : Contains(m, keywords[i])

(***************************************************************************)
(* Project data as the routing policy and the readiness gate read it.      *)
(* A requirements map is total over AgentIds here; `present` is `agent in  *)
(* requirements`.  A stored message carries its role and its agent field;  *)
(* `by` is a history field, not stored by the program: the agent whose     *)
(* reply the message is (route_message's result 'agent'), None for a user  *)
(* message.                                                                *)
(***************************************************************************)
NoRecord == [ present |-> FALSE, has_substance |-> FALSE, failed |-> FALSE ]

\* variant: the record of an apology never has substance
Record_apology_without_substance(substance, apology) ==
    [ present |-> TRUE, has_substance |-> substance /\ ~apology,
      failed |-> apology ]

\* the dict written by _extract_requirements_enhanced, reduced to the fields
\* that decide something; `failed` remembers that the stored full_response
\* is an apology for a failed executor call
Record(substance, apology) ==
    [ present |-> TRUE, has_substance |-> substance, failed |-> apology ]

EmptyRequirements == [ a \in AgentIds |-> NoRecord ]

Message(role, agent, by) == [ role |-> role, agent |-> agent, by |-> by ]

(***************************************************************************)
(* Routing Policy: ADKOrchestrator._determine_next_agent.                  *)
(***************************************************************************)
\* variant: the first entry names an agent id that does not exist
approval_progression_typo ==
    ( "requirements_evolver" :> "ux_designer" ) @@
    ( "ux_architect"         :> "ui_designer" ) @@
    ( "ui_designer"          :> "frontend_engineer" ) @@
    ( "frontend_engineer"    :> "data_architect" ) @@
    ( "data_architect"       :> "api_designer" ) @@
    ( "api_designer"         :> "devops" )

approval_progression ==
    ( "requirements_evolver" :> "ux_architect" ) @@
    ( "ux_architect"         :> "ui_designer" ) @@
    ( "ui_designer"          :> "frontend_engineer" ) @@
    ( "frontend_engineer"    :> "data_architect" ) @@
    ( "data_architect"       :> "api_designer" ) @@
    ( "api_designer"         :> "devops" )

\* the agents of the keyword table that have a keyword in the text
KeywordHits(message_lower) ==
    { i \in 1..Len(KeywordOrder) :
        AnyIn(message_lower, agent_keywords(KeywordOrder[i])) }

\* the agent at which the loop over agent_keywords.items() returns
FirstKeywordAgent(message_lower) ==
    LET hits == KeywordHits(message_lower)
    IN  KeywordOrder[CHOOSE i \in hits : \A j \in hits : i <= j]

\* len([msg for msg in messages if msg.get('agent') == current_agent])
MessageCount(messages, current_agent) ==
    Cardinality({ i \in 1..Len(messages) : messages[i].agent = current_agent })

\* variant: advances on the message count alone
ProgressAdvance_count_only(current_agent, project_data) ==
    LET current_index == IndexOf(AGENT_CHAIN, current_agent)
        message_count == MessageCount(project_data.messages, current_agent)
    IN  IF message_count >= 2 /\ current_index < Len(AGENT_CHAIN)
        THEN AGENT_CHAIN[current_index + 1]
        ELSE current_agent

\* variant: advances after one message of the current agent
ProgressAdvance_one_message(current_agent, project_data) ==
    LET requirements == project_data.requirements
        current_index == IndexOf(AGENT_CHAIN, current_agent)
        current_has_contributed ==
            requirements[current_agent].present /\
            requirements[current_agent].has_substance
        message_count == MessageCount(project_data.messages, current_agent)
    IN  IF (current_has_contributed \/ message_count >= 1)
           /\ current_index < Len(AGENT_CHAIN)
        THEN AGENT_CHAIN[current_index + 1]
        ELSE current_agent

ProgressAdvance(current_agent, project_data) ==
    LET requirements == project_data.requirements
        current_index == IndexOf(AGENT_CHAIN, current_agent)
        current_has_contributed ==
            requirements[current_agent].present /\
            requirements[current_agent].has_substance
        message_count == MessageCount(project_data.messages, current_agent)
    IN  IF (current_has_contributed \/ message_count >= 2)
           /\ current_index < Len(AGENT_CHAIN)
        THEN AGENT_CHAIN[current_index + 1]
        ELSE current_agent

\* variant: the keyword loop runs before the approval check
determine_next_agent_keyword_first(current_agent, user_message, project_data) ==
    LET message_lower == Lower(user_message)
    IN  IF KeywordHits(message_lower) # {}
        THEN FirstKeywordAgent(message_lower)
        ELSE IF AnyIn(message_lower, approval_keywords)
           /\ current_agent \in DOMAIN approval_progression
        THEN approval_progression[current_agent]
        ELSE IF current_agent \in ChainAgents
        THEN ProgressAdvance(current_agent, project_data)
        ELSE current_agent

\* variant: the keyword loop searches the message as typed, not lower-cased
determine_next_agent_raw_keywords(current_agent, user_message, project_data) ==
    LET message_lower == Lower(user_message)
    IN  IF AnyIn(message_lower, approval_keywords)
           /\ current_agent \in DOMAIN approval_progression
        THEN approval_progression[current_agent]
        ELSE IF KeywordHits(user_message) # {}
        THEN FirstKeywordAgent(user_message)
        ELSE IF current_agent \in ChainAgents
        THEN ProgressAdvance(current_agent, project_data)
        ELSE current_agent

\* variant: approval advances only an agent that has contributed
determine_next_agent_earned_approval(current_agent, user_message, project_data) ==
    LET message_lower == Lower(user_message)
    IN  IF AnyIn(message_lower, approval_keywords)
           /\ current_agent \in DOMAIN approval_progression
           /\ project_data.requirements[current_agent].has_substance
        THEN approval_progression[current_agent]
        ELSE IF KeywordHits(message_lower) # {}
        THEN FirstKeywordAgent(message_lower)
        ELSE IF current_agent \in ChainAgents
        THEN ProgressAdvance(current_agent, project_data)
        ELSE current_agent

\* variant: the keyword table is walked in the order of AGENT_CHAIN
determine_next_agent_chain_order(current_agent, user_message, project_data) ==
    LET message_lower == Lower(user_message)
        hits == { i \in 1..Len(AGENT_CHAIN) :
                    AnyIn(message_lower, agent_keywords(AGENT_CHAIN[i])) }
    IN  IF AnyIn(message_lower, approval_keywords)
           /\ current_agent \in DOMAIN approval_progression
        THEN approval_progression[current_agent]
        ELSE IF hits # {}
        THEN AGENT_CHAIN[CHOOSE i \in hits : \A j \in hits : i <= j]
        ELSE IF current_agent \in ChainAgents
        THEN ProgressAdvance(current_agent, project_data)
        ELSE current_agent

determine_next_agent(current_agent, user_message, project_data) ==
    LET message_lower == Lower(user_message)
    IN  IF ~IsStr(user_message)
        THEN AttributeError
        ELSE IF AnyIn(message_lower, approval_keywords)
           /\ current_agent \in DOMAIN approval_progression
        THEN approval_progression[current_agent]
        ELSE IF KeywordHits(message_lower) # {}
        THEN FirstKeywordAgent(message_lower)
        ELSE IF current_agent \in ChainAgents
        THEN ProgressAdvance(current_agent, project_data)
        ELSE current_agent

(***************************************************************************)
(* Readiness Gate: _has_minimal_requirements, can_generate_code.           *)
(***************************************************************************)
\* sum(1 for agent_data in requirements.values() if agent_data and ...)
SubstantialAgents(requirements) ==
    { a \in AgentIds : requirements[a].present /\ requirements[a].has_substance }

\* variant: two substantial agents are enough
has_minimal_requirements_two(project_data) ==
    Cardinality(SubstantialAgents(project_data.requirements)) >= 2

\* variant: the counts are compared with == instead of >=
has_minimal_requirements_exact(project_data) ==
    LET requirements == project_data.requirements
        substantial_agents == Cardinality(SubstantialAgents(requirements))
        has_requirements_evolver ==
            requirements["requirements_evolver"].present /\
            requirements["requirements_evolver"].has_substance
    IN  \/ substantial_agents = 3
        \/ (has_requirements_evolver /\ substantial_agents = 2)
        \/ substantial_agents = 4

has_minimal_requirements(project_data) ==
    LET requirements == project_data.requirements
        substantial_agents == Cardinality(SubstantialAgents(requirements))
        has_requirements_evolver ==
            requirements["requirements_evolver"].present /\
            requirements["requirements_evolver"].has_substance
    IN  \/ substantial_agents >= 3
        \/ (has_requirements_evolver /\ substantial_agents >= 2)
        \/ substantial_agents >= 4

get_generation_status_message(can_generate, substantial_agents) ==
    IF can_generate THEN "Ready to generate!"
    ELSE IF substantial_agents = 0 THEN "Please describe your project requirements first."
    ELSE IF substantial_agents = 1 THEN "Getting there! A bit more detail"
    ELSE IF substantial_agents = 2 THEN "Making progress! A few more details"
    ELSE "Almost ready!"

\* the status dict of can_generate_code, computed from the loaded project
can_generate_code(project_data) ==
    LET requirements == project_data.requirements
        substantial_agents == Cardinality(SubstantialAgents(requirements))
        minimal == has_minimal_requirements(project_data)
    IN  [ can_generate |-> minimal,
          substantial_agents |-> substantial_agents,
          agent_contributions |-> SubstantialAgents(requirements),
          has_minimal_requirements |-> minimal,
          message |-> get_generation_status_message(minimal, substantial_agents) ]

(***************************************************************************)
(* Substance Classifier: ADKOrchestrator._has_substantial_content.         *)
(* A reply is a text with, in addition, its surrounding whitespace (pad),  *)
(* the length of what is left without it (len) and whether that ends       *)
(* with a question mark.                                                   *)
(***************************************************************************)
Reply(u, S, pad, len, q) ==
    [ upper |-> u, phrases |-> S, pad |-> pad, len |-> len, ends_q |-> q ]

\* len(text)
Length(t) == t.pad + t.len

\* str.strip()
Strip(t) == [ t EXCEPT !.pad = 0 ]

EarlyAgents == { "requirements_evolver", "ux_architect", "ui_designer" }

question_openers ==
    << "what would", "can you", "please provide", "could you tell me" >>

technical_indicators(a) ==
    CASE a = "frontend_engineer" ->
           << "javascript", "framework", "component", "interaction",
              "functionality", "implementation" >>
      [] a = "data_architect" ->
           << "database", "storage", "data", "schema", "table", "model" >>
      [] a = "api_designer" ->
           << "endpoint", "api", "rest", "backend", "route", "request", "response" >>
      [] a = "devops" ->
           << "deployment", "hosting", "server", "cloud", "domain", "ssl",
              "environment" >>
      [] a = "code_generator" ->
           << "import", "def ", "class ", "function", "const ", "let ", "app.route" >>
      [] OTHER -> << >>

MinLength == 25
EarlyMinLength == 30
QuestionMaxLength == 80
TechnicalMinLength == 40

Falsy(v) == IF IsStr(v) THEN Length(v) = 0 ELSE v = None

\* variant: a technical term of any agent counts for every technical agent
has_substantial_content_any_indicator(response, agent_name) ==
    IF Falsy(response) \/ Length(Strip(response)) < MinLength
    THEN FALSE
    ELSE LET response_clean == Strip(response)
         IN  IF agent_name \in EarlyAgents
             THEN LET is_pure_question ==
                          /\ response_clean.ends_q
                          /\ Length(response_clean) < QuestionMaxLength
                          /\ AnyIn(Lower(response_clean), question_openers)
                  IN  Length(response_clean) >= EarlyMinLength /\ ~is_pure_question
             ELSE LET has_technical_content ==
                          \E a \in AgentIds :
                             AnyIn(Lower(response_clean), technical_indicators(a))
                  IN  Length(response_clean) >= TechnicalMinLength /\ has_technical_content

\* variant: a clarifying question of any length is a pure question
has_substantial_content_any_question(response, agent_name) ==
    IF Falsy(response) \/ Length(Strip(response)) < MinLength
    THEN FALSE
    ELSE LET response_clean == Strip(response)
         IN  IF agent_name \in EarlyAgents
             THEN LET is_pure_question ==
                          /\ response_clean.ends_q
                          /\ AnyIn(Lower(response_clean), question_openers)
                  IN  Length(response_clean) >= EarlyMinLength /\ ~is_pure_question
             ELSE LET has_technical_content ==
                          AnyIn(Lower(response_clean), technical_indicators(agent_name))
                  IN  Length(response_clean) >= TechnicalMinLength /\ has_technical_content

has_substantial_content(response, agent_name) ==
    IF Falsy(response) \/ Length(Strip(response)) < MinLength
    THEN FALSE
    ELSE LET response_clean == Strip(response)
         IN  IF agent_name \in EarlyAgents
             THEN LET is_pure_question ==
                          /\ response_clean.ends_q
                          /\ Length(response_clean) < QuestionMaxLength
                          /\ AnyIn(Lower(response_clean), question_openers)
                  IN  Length(response_clean) >= EarlyMinLength /\ ~is_pure_question
             ELSE LET has_technical_content ==
                          AnyIn(Lower(response_clean), technical_indicators(agent_name))
                  IN  Length(response_clean) >= TechnicalMinLength /\ has_technical_content

\* the reply _run_single_agent substitutes when the executor reports failure:
\* "I encountered an issue while processing your request. Please try again.
\* Error: " followed by the executor's error text
ApologyPrefixLength == 79

Apology(error_msg) ==
    Reply(FALSE,
          { "request" } \cup (IF error_msg.upper THEN {} ELSE error_msg.phrases),
          0, ApologyPrefixLength + Length(error_msg), error_msg.ends_q)

\* the reply _run_single_agent substitutes when the call raises:
\* "I encountered an issue. Please try again. Error: " followed by str(e)
RaisedPrefixLength == 49

RaisedApology(error_msg) ==
    Reply(FALSE,
          IF error_msg.upper THEN {} ELSE error_msg.phrases,
          0, RaisedPrefixLength + Length(error_msg), error_msg.ends_q)

(***************************************************************************)
(* Session Memory: ADKSession (storage/local_storage.py) and               *)
(* SESSION_CONFIG (config/settings.py).                                    *)
(***************************************************************************)
max_messages == 50

\* the keys SESSION_CONFIG defines
SESSION_CONFIG_KEYS ==
    { "timeout", "max_sessions", "cleanup_interval", "memory_limit",
      "max_messages", "session_cleanup" }

\* seq[-n:] for n > 0
LastN(seq, n) ==
    IF Len(seq) <= n THEN seq ELSE SubSeq(seq, Len(seq) - n + 1, Len(seq))

\* ADKSession._compact_context on a log: the log it leaves, and whether it
\* raised (SESSION_CONFIG["compaction_strategy"] is a KeyError when the key
\* is not configured; with the key, "recent" is the strategy handled)
compact_context(messages) ==
    IF Len(messages) > max_messages
    THEN IF "compaction_strategy" \notin SESSION_CONFIG_KEYS
         THEN [ messages |-> messages, raised |-> TRUE ]
         ELSE [ messages |-> LastN(messages, max_messages \div 2), raised |-> FALSE ]
    ELSE [ messages |-> messages, raised |-> FALSE ]

\* LocalStorage._get_session: get or create
get_session(s) == IF s.exists THEN s ELSE [ s EXCEPT !.exists = TRUE ]

\* ADKSession.update_agent_state
update_agent_state(s, agent_name) ==
    [ s EXCEPT !.agent_states[agent_name] = @ + 1 ]

\* ADKSession.add_message: append, then compact; message_id is fresh
session_add_message(s, role, agent) ==
    LET appended == Append(s.messages,
                        [ role |-> role, agent |-> agent, message_id |-> s.next_id ])
        compacted == compact_context(appended)
    IN  [ session |-> [ s EXCEPT !.messages = compacted.messages,
                                 !.next_id = @ + 1 ],
          raised |-> compacted.raised ]

(***************************************************************************)
(* LocalStorage operations on one project: its session s in the cache of   *)
(* the LocalStorage instance used, and its file f.  Each gives the session *)
(* and file it leaves and whether it raised.                               *)
(***************************************************************************)
storage_add_message(s, f, role, agent, by) ==
    LET added == session_add_message(get_session(s), role, agent)
        stated == IF agent # NoAgent
                  THEN update_agent_state(added.session, agent)
                  ELSE added.session
    IN  IF added.raised
        THEN [ session |-> added.session, file |-> f, raised |-> TRUE ]
        ELSE IF ~f.exists
        THEN [ session |-> stated, file |-> f, raised |-> TRUE ]
        ELSE [ session |-> stated,
               file |-> [ f EXCEPT !.messages = Append(@, Message(role, agent, by)) ],
               raised |-> FALSE ]

\* variant: update_project writes a fresh project record with the updates
set_active_agent_fresh(s, f, agent_name) ==
    IF ~f.exists
    THEN [ session |-> s, file |-> f, raised |-> TRUE ]
    ELSE [ session |-> update_agent_state(get_session(s), agent_name),
           file |-> [ f EXCEPT !.active_agent = agent_name, !.messages = << >> ],
           raised |-> FALSE ]

set_active_agent(s, f, agent_name) ==
    IF ~f.exists
    THEN [ session |-> s, file |-> f, raised |-> TRUE ]
    ELSE [ session |-> update_agent_state(get_session(s), agent_name),
           file |-> [ f EXCEPT !.active_agent = agent_name ],
           raised |-> FALSE ]

\* variant: a record with substance is not replaced by one without
update_requirements_keep_substance(s, f, agent_name, requirements) ==
    IF ~f.exists
    THEN [ session |-> s, file |-> f, raised |-> TRUE ]
    ELSE [ session |-> update_agent_state(get_session(s), agent_name),
           file |-> IF f.requirements[agent_name].has_substance
                       /\ ~requirements.has_substance
                    THEN f
                    ELSE [ f EXCEPT !.requirements[agent_name] = requirements ],
           raised |-> FALSE ]

update_requirements(s, f, agent_name, requirements) ==
    IF ~f.exists
    THEN [ session |-> s, file |-> f, raised |-> TRUE ]
    ELSE [ session |-> update_agent_state(get_session(s), agent_name),
           file |-> [ f EXCEPT !.requirements[agent_name] = requirements ],
           raised |-> FALSE ]

(***************************************************************************)
(* State.                                                                  *)
(*   disk           the project files, by project id                       *)
(*   sessions       the session cache of the server's LocalStorage         *)
(*   orch_sessions  the session cache of the orchestrator's LocalStorage   *)
(*   agent_progress ADKOrchestrator.agent_progress                         *)
(*   conn           per connection: the handler suspended in it, if any    *)
(*   out            per connection: the last response sent to the client   *)
(*   probe          arguments and results of a function applied on its own *)
(***************************************************************************)
VARIABLES disk, sessions, orch_sessions, agent_progress, conn, out, probe

vars == << disk, sessions, orch_sessions, agent_progress, conn, out, probe >>

sysvars == << disk, sessions, orch_sessions, agent_progress, conn, out >>

Projects == { "p1", "p2" }

Conns == { "c1", "c2" }

NoProbe == [ calls |-> 0 ]

(***************************************************************************)
(* The routing policy applied on its own: every modelled message, every    *)
(* agent id, and project data that differ in the current agent's record    *)
(* and in the number of stored messages of the current agent.              *)
(***************************************************************************)
\* n exchanges with agent a: a user message, then a's reply tagged with a
RECURSIVE History(_, _)
History(n, a) ==
    IF n = 0 THEN << >>
    ELSE History(n - 1, a) \o << Message("user", NoAgent, NoAgent), Message("agent", a, a) >>

ProbeRecords == { NoRecord, Record(FALSE, FALSE), Record(TRUE, FALSE) }

ProbeProjects(a) ==
    { [ active_agent |-> a,
        requirements |-> [ EmptyRequirements EXCEPT ![a] = r ],
        messages |-> History(n, a) ] : r \in ProbeRecords, n \in 0..MaxHist }

(***************************************************************************)
(* Initial state of the server process: LocalStorage.__init__ (twice, the  *)
(* server's and the orchestrator's), ADKOrchestrator.__init__,             *)
(* ADKAIDEServer.__init__, on an empty projects directory.                 *)
(***************************************************************************)
NoFile ==
    [ exists |-> FALSE, active_agent |-> NoAgent,
      requirements |-> EmptyRequirements, messages |-> << >>,
      generated_files |-> 0 ]

NoSession ==
    [ exists |-> FALSE, messages |-> << >>, next_id |-> 0,
      agent_states |-> [ a \in AgentIds |-> 0 ] ]

NoProject == "none"

Idle ==
    [ pc |-> "idle", project_id |-> NoProject, agent |-> NoAgent,
      user_message |-> Text(FALSE, {}) ]

\* the empty string
NoText == Reply(FALSE, {}, 0, 0, FALSE)

\* what the executor call of a turn gave: its kind ("success": a result with
\* success True, "failure": a result with success False, "raised": an
\* exception) and its text (the response, the error text, str(e))
Result(kind, text) == [ kind |-> kind, text |-> text ]

NoResult == Result("none", NoText)

\* a response sent to the client; an agent_response carries the generation
\* status that handle_user_message sends right after it
Response(type, project_id, agent, status) ==
    [ type |-> type, project_id |-> project_id, agent |-> agent,
      can_generate |-> status.can_generate,
      substantial_agents |-> status.substantial_agents,
      message |-> NoText, should_generate |-> FALSE, executor |-> NoResult ]

\* the agent_response of a turn: route_message's result (message, agent,
\* should_generate) and the generation status; `executor` is a history
\* field, not sent: what the executor call gave
TurnResponse(project_id, routed, status, result) ==
    [ Response("agent_response", project_id, routed.agent, status)
        EXCEPT !.message = routed.message,
               !.should_generate = routed.should_generate,
               !.executor = result ]

NoStatus == [ can_generate |-> FALSE, substantial_agents |-> 0 ]

Error(project_id) == Response("error", project_id, NoAgent, NoStatus)

Silent == Response("none", NoProject, NoAgent, NoStatus)

SysInit ==
    /\ disk = [ p \in Projects |-> NoFile ]
    /\ sessions = [ p \in Projects |-> NoSession ]
    /\ orch_sessions = [ p \in Projects |-> NoSession ]
    /\ agent_progress = [ p \in Projects |-> [ exists |-> FALSE, agents |-> {} ] ]
    /\ conn = [ c \in Conns |-> Idle ]
    /\ out = [ c \in Conns |-> Silent ]

(***************************************************************************)
(* Specification SpecRoute: nextAgent applied to drawn arguments, and      *)
(* applied once more from the agent it returned.                           *)
(***************************************************************************)
RouteInit ==
    /\ SysInit
    /\ \E a \in AgentIds, u \in BOOLEAN, S \in PhraseSets(MaxPhrases) :
         \E pd \in ProbeProjects(a) :
           probe = [ current_agent |-> a, user_message |-> Text(u, S),
                     project_data |-> pd,
                     result |-> NoAgent, again |-> NoAgent, calls |-> 0 ]

Route ==
    /\ probe.calls = 0
    /\ probe' = [ probe EXCEPT
                    !.result = determine_next_agent(probe.current_agent,
                                   probe.user_message, probe.project_data),
                    !.calls = 1 ]
    /\ UNCHANGED sysvars

\* the next turn with the same message: route_message starts from the agent
\* the previous call made active
RouteAgain ==
    /\ probe.calls = 1
    /\ probe' = [ probe EXCEPT
                    !.again = determine_next_agent(probe.result, probe.user_message,
                                  [ probe.project_data EXCEPT !.active_agent = probe.result ]),
                    !.calls = 2 ]
    /\ UNCHANGED sysvars

RouteNext == Route \/ RouteAgain

SpecRoute == RouteInit /\ [][RouteNext]_vars

(***************************************************************************)
(* Orchestration Facade and server handlers (orchestrator.py, main.py).    *)
(* A handler runs without interruption between two awaits; the await that  *)
(* suspends a turn is the executor call inside _run_single_agent.          *)
(***************************************************************************)
NewFile ==
    [ exists |-> TRUE, active_agent |-> "requirements_evolver",
      requirements |-> EmptyRequirements, messages |-> << >>,
      generated_files |-> 0 ]

\* route_message up to the executor call, on the loaded file f and the
\* orchestrator's session os of the project
route_begin(os, f, user_message) ==
    LET current_agent == f.active_agent
        next_agent == determine_next_agent(current_agent, user_message, f)
        switched == set_active_agent(os, f, next_agent)
    IN  IF next_agent # current_agent
        THEN [ session |-> switched.session, file |-> switched.file, agent |-> next_agent ]
        ELSE [ session |-> os, file |-> f, agent |-> current_agent ]

\* variant: result['response'] is returned whatever result['success'] says
agent_response_raw(kind, text) ==
    CASE kind = "success" -> text
      [] kind = "failure" -> text
      [] kind = "raised"  -> RaisedApology(text)

\* _run_single_agent's return value for what the executor call gave
agent_response(kind, text) ==
    CASE kind = "success" -> text
      [] kind = "failure" -> Apology(text)
      [] kind = "raised"  -> RaisedApology(text)

\* variant: start_conversation assigns a new agent_progress dict holding
\* only this project
NewProject_reset_progress(c, p) ==
    /\ conn[c].pc = "idle"
    /\ ~disk[p].exists /\ ~sessions[p].exists /\ ~orch_sessions[p].exists
    /\ LET started == set_active_agent(orch_sessions[p], NewFile, "requirements_evolver")
       IN  /\ sessions' = [ sessions EXCEPT ![p] = get_session(@) ]
           /\ disk' = [ disk EXCEPT ![p] = started.file ]
           /\ orch_sessions' = [ orch_sessions EXCEPT ![p] = started.session ]
    /\ agent_progress' = [ q \in Projects |->
                             IF q = p THEN [ exists |-> TRUE, agents |-> {} ]
                             ELSE [ exists |-> FALSE, agents |-> {} ] ]
    /\ out' = [ out EXCEPT ![c] =
                  Response("agent_response", p, "requirements_evolver", NoStatus) ]
    /\ UNCHANGED << conn, probe >>

\* handle_new_project: create_project under a fresh id, start_conversation
\* variant: an active agent and a progress set that exist are kept
start_conversation_keep(os, f, progress) ==
    LET agent == IF f.active_agent = NoAgent
                 THEN "requirements_evolver" ELSE f.active_agent
        started == set_active_agent(os, f, agent)
    IN  [ session |-> started.session, file |-> started.file,
          progress |-> IF started.raised \/ progress.exists THEN progress
                       ELSE [ exists |-> TRUE, agents |-> {} ],
          raised |-> started.raised ]

(***************************************************************************)
(* start_conversation: the first agent becomes the active one (which       *)
(* raises for a project without file) and the progress set of the project  *)
(* is replaced by an empty one.                                            *)
(***************************************************************************)
start_conversation(os, f, progress) ==
    LET started == set_active_agent(os, f, "requirements_evolver")
    IN  [ session |-> started.session, file |-> started.file,
          progress |-> IF started.raised THEN progress
                       ELSE [ exists |-> TRUE, agents |-> {} ],
          raised |-> started.raised ]

NewProject(c, p) ==
    /\ conn[c].pc = "idle"
    /\ ~disk[p].exists /\ ~sessions[p].exists /\ ~orch_sessions[p].exists
    /\ LET started == start_conversation(orch_sessions[p], NewFile, agent_progress[p])
       IN  /\ sessions' = [ sessions EXCEPT ![p] = get_session(@) ]
           /\ disk' = [ disk EXCEPT ![p] = started.file ]
           /\ orch_sessions' = [ orch_sessions EXCEPT ![p] = started.session ]
           /\ agent_progress' = [ agent_progress EXCEPT ![p] = started.progress ]
    /\ out' = [ out EXCEPT ![c] =
                  Response("agent_response", p, "requirements_evolver", NoStatus) ]
    /\ UNCHANGED << conn, probe >>

\* handle_user_message up to the executor call: store the user message,
\* read the project, route, make the selected agent active
(***************************************************************************)
(* cleanup_project of one LocalStorage: the file of the project is         *)
(* removed, and the session this storage holds for it.                     *)
(***************************************************************************)
cleanup_project(s, f) == [ session |-> NoSession, file |-> NoFile ]

(***************************************************************************)
(* A new_project request that fails.  Where it can fail:                   *)
(*   "create_project"   writing the project file raises, after the server  *)
(*                      storage made the session; project_id is still     *)
(*                      None, so nothing is cleaned up; an error is sent   *)
(*   "project_created"  the client is gone when the first frame is sent;   *)
(*                      the server storage cleans the project up           *)
(*   "agent_response"   the client is gone when the welcome is sent, after *)
(*                      start_conversation; the server storage cleans the  *)
(*                      project up                                         *)
(* A frame for a client that is gone is not delivered.                     *)
(***************************************************************************)
FailurePoints == { "create_project", "project_created", "agent_response" }

NewProjectFails(c, p, at) ==
    /\ conn[c].pc = "idle"
    /\ ~disk[p].exists /\ ~sessions[p].exists /\ ~orch_sessions[p].exists
    /\ LET created == get_session(sessions[p])
           started == start_conversation(orch_sessions[p], NewFile, agent_progress[p])
           welcomed == at = "agent_response"
           cleaned == cleanup_project(created,
                                      IF welcomed THEN started.file ELSE NewFile)
       IN  /\ sessions' = [ sessions EXCEPT ![p] =
                              IF at = "create_project" THEN created
                              ELSE cleaned.session ]
           /\ disk' = [ disk EXCEPT ![p] =
                          IF at = "create_project" THEN @ ELSE cleaned.file ]
           /\ orch_sessions' = [ orch_sessions EXCEPT ![p] =
                                   IF welcomed THEN started.session ELSE @ ]
           /\ agent_progress' = [ agent_progress EXCEPT ![p] =
                                    IF welcomed THEN started.progress ELSE @ ]
    /\ out' = [ out EXCEPT ![c] = IF at = "create_project" THEN Error(p) ELSE @ ]
    /\ UNCHANGED << conn, probe >>

UserMessage(c, p, m) ==
    /\ conn[c].pc = "idle"
    /\ LET stored == storage_add_message(sessions[p], disk[p], "user", NoAgent, NoAgent)
           routed == route_begin(orch_sessions[p], stored.file, m)
       IN  /\ sessions' = [ sessions EXCEPT ![p] = stored.session ]
           /\ IF stored.raised
              THEN /\ out' = [ out EXCEPT ![c] = Error(p) ]
                   /\ UNCHANGED << disk, orch_sessions, conn >>
              ELSE /\ disk' = [ disk EXCEPT ![p] = routed.file ]
                   /\ orch_sessions' = [ orch_sessions EXCEPT ![p] = routed.session ]
                   /\ conn' = [ conn EXCEPT ![c] =
                                  [ pc |-> "executor", project_id |-> p,
                                    agent |-> routed.agent, user_message |-> m ] ]
                   /\ UNCHANGED out
    /\ UNCHANGED << agent_progress, probe >>

\* the executor call returns: the rest of route_message (the reply or the
\* apology, _extract_requirements_enhanced, agent_progress) and of
\* handle_user_message (store the reply, send it, send the generation status)
ExecutorReturn(c, kind, text) ==
    /\ conn[c].pc = "executor"
    /\ LET p == conn[c].project_id
           current_agent == conn[c].agent
           response == agent_response(kind, text)
           has_substance == has_substantial_content(response, current_agent)
           updated == update_requirements(orch_sessions[p], disk[p], current_agent,
                                          Record(has_substance, kind # "success"))
           routed == [ message |-> response, agent |-> current_agent,
                       should_generate |-> FALSE ]
           stored == storage_add_message(sessions[p], updated.file, "agent",
                                         NoAgent, current_agent)
           failed == [ Error(p) EXCEPT !.executor = Result(kind, text) ]
       IN  IF updated.raised
           THEN /\ out' = [ out EXCEPT ![c] = failed ]
                /\ UNCHANGED << disk, sessions, orch_sessions, agent_progress >>
           ELSE /\ orch_sessions' = [ orch_sessions EXCEPT ![p] = updated.session ]
                /\ agent_progress' =
                     IF agent_progress[p].exists /\ has_substance
                     THEN [ agent_progress EXCEPT ![p].agents = @ \cup { current_agent } ]
                     ELSE agent_progress
                /\ sessions' = [ sessions EXCEPT ![p] = stored.session ]
                /\ disk' = [ disk EXCEPT ![p] = stored.file ]
                /\ out' = [ out EXCEPT ![c] =
                              IF stored.raised
                              THEN failed
                              ELSE TurnResponse(p, routed, can_generate_code(stored.file),
                                                Result(kind, text)) ]
    /\ conn' = [ conn EXCEPT ![c] = Idle ]
    /\ UNCHANGED probe

\* handle_check_generation_status
CheckStatus(c, p) ==
    /\ conn[c].pc = "idle"
    /\ out' = [ out EXCEPT ![c] =
                  IF disk[p].exists
                  THEN Response("generation_status", p, NoAgent, can_generate_code(disk[p]))
                  ELSE Error(p) ]
    /\ UNCHANGED << disk, sessions, orch_sessions, agent_progress, conn, probe >>

\* variant: generation is blocked only while no agent has contributed
generate_blocked_when_empty(generation_status) ==
    generation_status.substantial_agents = 0

\* handle_generate_code: `if not generation_status['can_generate']`
generate_blocked(generation_status) == ~generation_status.can_generate

\* a handler suspended in the project builder
Building(p) ==
    [ pc |-> "builder", project_id |-> p, agent |-> NoAgent,
      user_message |-> Text(FALSE, {}) ]

\* handle_generate_code up to the project builder call: ask the gate, then
\* refuse, or read the project and announce the generation
GenerateCode(c, p) ==
    /\ conn[c].pc = "idle"
    /\ IF ~disk[p].exists
       THEN /\ out' = [ out EXCEPT ![c] = Error(p) ]
            /\ UNCHANGED conn
       ELSE LET generation_status == can_generate_code(disk[p])
            IN  IF generate_blocked(generation_status)
                THEN /\ out' = [ out EXCEPT ![c] =
                                   Response("generation_failed", p, NoAgent,
                                            generation_status) ]
                     /\ UNCHANGED conn
                ELSE /\ out' = [ out EXCEPT ![c] =
                                   Response("generation_started", p, NoAgent,
                                            generation_status) ]
                     /\ conn' = [ conn EXCEPT ![c] = Building(p) ]
    /\ UNCHANGED << disk, sessions, orch_sessions, agent_progress, probe >>

\* LocalStorage.add_generated_file, once per generated file
add_generated_files(f, files) ==
    IF ~f.exists
    THEN [ file |-> f, raised |-> TRUE ]
    ELSE [ file |-> [ f EXCEPT !.generated_files = @ + files ], raised |-> FALSE ]

\* the project builder returns (generate_project_code after the call): the
\* files are tracked and code_generated is sent, or the builder raised
BuilderReturn(c, built, files) ==
    /\ conn[c].pc = "builder"
    /\ LET p == conn[c].project_id
           tracked == add_generated_files(disk[p], files)
       IN  IF built /\ ~tracked.raised
           THEN /\ disk' = [ disk EXCEPT ![p] = tracked.file ]
                /\ out' = [ out EXCEPT ![c] =
                              Response("code_generated", p, NoAgent, NoStatus) ]
           ELSE /\ out' = [ out EXCEPT ![c] = Error(p) ]
                /\ UNCHANGED disk
    /\ conn' = [ conn EXCEPT ![c] = Idle ]
    /\ UNCHANGED << sessions, orch_sessions, agent_progress, probe >>

(***************************************************************************)
(* Specification Spec: the server with two connections and two project     *)
(* ids, a few user messages and executor outcomes.                         *)
(***************************************************************************)
Hello == Text(FALSE, {})
LooksGoodProceed == Text(FALSE, { "looks good", "proceed" })
DatabaseSchema == Text(FALSE, { "database" })

SampleMessages == { Hello, LooksGoodProceed, DatabaseSchema }

\* "No response generated"
ShortReply == Reply(FALSE, {}, 0, 21, FALSE)
\* a paragraph naming technical terms of every technical agent
TechnicalReply ==
    Reply(FALSE, { "javascript", "database", "data", "endpoint", "deployment" },
          0, 200, FALSE)
\* "Error: model unavailable"
ErrorText == Reply(FALSE, {}, 0, 24, FALSE)

Outcomes ==
    { << "success", ShortReply >>, << "success", TechnicalReply >>,
      << "failure", ErrorText >> }

Appends == sessions["p1"].next_id + sessions["p2"].next_id

Init == SysInit /\ probe = NoProbe

Next ==
    \/ \E c \in Conns, p \in Projects : NewProject(c, p)
    \/ \E c \in Conns, p \in Projects, m \in SampleMessages :
         Appends + 2 <= MaxLog /\ UserMessage(c, p, m)
    \/ \E c \in Conns, o \in Outcomes : ExecutorReturn(c, o[1], o[2])

Spec == Init /\ [][Next]_vars

(***************************************************************************)
(* Specification SpecLong: one client keeps chatting on its projects, the  *)
(* executor always answers, until a session log has had MaxLongLog         *)
(* appends.                                                                *)
(***************************************************************************)
LongNext ==
    \/ \E p \in Projects : NewProject("c1", p)
    \/ \E p \in Projects :
         /\ disk[p].exists
         /\ sessions[p].next_id < MaxLongLog
         /\ UserMessage("c1", p, Hello)
    \/ ExecutorReturn("c1", "success", ShortReply)
    \/ \E p \in Projects : CheckStatus("c1", p)

SpecLong == Init /\ [][LongNext]_vars

(***************************************************************************)
(* Specification SpecOps: every request type on two connections and two    *)
(* project ids, every kind of executor and builder outcome, for a short    *)
(* conversation.                                                           *)
(***************************************************************************)
\* the text of an exception: "Session service is down"
RaisedText == Reply(FALSE, {}, 0, 23, FALSE)

OpsMessages == { Hello, LooksGoodProceed }

OpsOutcomes ==
    { << "success", ShortReply >>, << "success", TechnicalReply >>,
      << "failure", ErrorText >>, << "raised", RaisedText >> }

OpsNext ==
    \/ \E c \in Conns, p \in Projects : NewProject(c, p)
    \/ \E c \in Conns, p \in Projects, at \in FailurePoints : NewProjectFails(c, p, at)
    \/ \E c \in Conns, p \in Projects, m \in OpsMessages :
         Appends + 2 <= MaxOpsLog /\ UserMessage(c, p, m)
    \/ \E c \in Conns, o \in OpsOutcomes : ExecutorReturn(c, o[1], o[2])
    \/ \E c \in Conns, p \in Projects : CheckStatus(c, p)
    \/ \E c \in Conns, p \in Projects :
         disk[p].generated_files < MaxGenerated /\ GenerateCode(c, p)
    \/ \E c \in Conns, built \in BOOLEAN, files \in 1..2 :
         BuilderReturn(c, built, files)

SpecOps == Init /\ [][OpsNext]_vars

(***************************************************************************)
(* Specification SpecRestart: one client chats on one project and the      *)
(* server process is restarted once: the project files stay, the session   *)
(* caches and the progress sets start empty, the connections are gone.     *)
(***************************************************************************)
\* LocalStorage.__init__ (twice), ADKOrchestrator.__init__ and
\* ADKAIDEServer.__init__ on the projects directory as it is
Restart ==
    /\ \E p \in Projects : sessions[p].exists \/ orch_sessions[p].exists
    /\ sessions' = [ p \in Projects |-> NoSession ]
    /\ orch_sessions' = [ p \in Projects |-> NoSession ]
    /\ agent_progress' = [ p \in Projects |-> [ exists |-> FALSE, agents |-> {} ] ]
    /\ conn' = [ c \in Conns |-> Idle ]
    /\ out' = [ c \in Conns |-> Silent ]
    /\ UNCHANGED << disk, probe >>

RestartNext ==
    \/ NewProject("c1", "p1")
    \/ /\ disk["p1"].exists
       /\ sessions["p1"].next_id < MaxLongLog
       /\ Len(disk["p1"].messages) < MaxLongLog
       /\ UserMessage("c1", "p1", Hello)
    \/ ExecutorReturn("c1", "success", ShortReply)
    \/ CheckStatus("c1", "p1")
    \/ /\ sessions["p1"].next_id >= Len(disk["p1"].messages)
       /\ Restart

SpecRestart == Init /\ [][RestartNext]_vars

(***************************************************************************)
(* Specification SpecGate: the readiness gate applied to every requirement *)
(* map over the agent ids.                                                 *)
(***************************************************************************)
GateInit ==
    /\ SysInit
    /\ \E r \in [ AgentIds -> ProbeRecords ] :
         probe = [ requirements |-> r, status |-> NoStatus,
                   earlier |-> r, earlier_status |-> NoStatus,
                   added |-> NoAgent, calls |-> 0 ]

GateCheck ==
    /\ probe.calls = 0
    /\ probe' = [ probe EXCEPT
                    !.status = can_generate_code([ requirements |-> probe.requirements ]),
                    !.calls = 1 ]
    /\ UNCHANGED sysvars

\* update_requirements writes a substantial record for an agent that had
\* none with substance, and the gate is asked again
GateAdd(a) ==
    /\ probe.calls = 1
    /\ a \notin SubstantialAgents(probe.requirements)
    /\ LET requirements == [ probe.requirements EXCEPT ![a] = Record(TRUE, FALSE) ]
       IN  probe' = [ probe EXCEPT
                        !.earlier = probe.requirements,
                        !.earlier_status = probe.status,
                        !.requirements = requirements,
                        !.status = can_generate_code([ requirements |-> requirements ]),
                        !.added = a,
                        !.calls = 2 ]
    /\ UNCHANGED sysvars

GateNext == GateCheck \/ \E a \in AgentIds : GateAdd(a)

SpecGate == GateInit /\ [][GateNext]_vars

(***************************************************************************)
(* What the claims speak about.                                            *)
(***************************************************************************)
\* the text contains a keyword of the list, in whatever letter case
Mentions(m, keywords) == m.phrases \cap Range(keywords) # {}

HasApproval(m) == Mentions(m, approval_keywords)

\* the agents whose keyword set has a keyword in the text
TopicAgents(m) == { a \in ChainAgents : Mentions(m, agent_keywords(a)) }

NoSignal(m) == ~HasApproval(m) /\ TopicAgents(m) = {}

LastAgent == AGENT_CHAIN[Len(AGENT_CHAIN)]

\* the next chain position
Successor(a) == AGENT_CHAIN[IndexOf(AGENT_CHAIN, a) + 1]

\* the replies of agent a stored in the project file f
ExchangedTurns(f, a) ==
    Cardinality({ i \in 1..Len(f.messages) : f.messages[i].by = a })

Routed == probe.calls >= 1

(***************************************************************************)
(* C1: in every reachable state, the stored active_agent of every project  *)
(* that exists is an identifier of the Agent Catalog.                      *)
(***************************************************************************)
C1_ActiveAgentKnown ==
    \A p \in Projects : disk[p].exists => disk[p].active_agent \in AgentIds

\* a project that was routed away from the first agent and got its reply stored
C1_Witness ==
    \E p \in Projects :
        /\ disk[p].exists
        /\ disk[p].active_agent = "data_architect"
        /\ disk[p].requirements["data_architect"].present
        /\ Len(disk[p].messages) >= 2

(***************************************************************************)
(* C2: for a current agent that is not the last of the chain, a message    *)
(* containing an approval keyword is routed to the agent's entry in the    *)
(* approval-progression table, which is its chain successor, whatever the  *)
(* agent's record, its message count and the topic keywords of the message.*)
(***************************************************************************)
C2_ApprovalFirst ==
    ( /\ Routed
      /\ probe.current_agent \in ChainAgents \ { LastAgent }
      /\ HasApproval(probe.user_message) )
    => /\ probe.result = approval_progression[probe.current_agent]
       /\ probe.result = Successor(probe.current_agent)

\* ui_designer + "looks good, proceed" gives frontend_engineer
C2_Witness ==
    /\ Routed
    /\ probe.current_agent = "ui_designer"
    /\ probe.user_message = LooksGoodProceed
    /\ TopicAgents(probe.user_message) = { "ui_designer" }
    /\ probe.result = "frontend_engineer"

(***************************************************************************)
(* C3 as claimed: a message without approval keyword that contains a       *)
(* keyword of an agent other than the current one is routed to a different *)
(* agent whose keyword it contains.                                        *)
(***************************************************************************)
C3_TopicOverride ==
    ( /\ Routed
      /\ ~HasApproval(probe.user_message)
      /\ TopicAgents(probe.user_message) \ { probe.current_agent } # {} )
    => /\ probe.result # probe.current_agent
       /\ probe.result \in TopicAgents(probe.user_message)

(***************************************************************************)
(* C3 amended: a message without approval keyword that contains a keyword  *)
(* of an agent other than the current one, and no keyword of the current   *)
(* agent, is routed to a different agent whose keyword it contains,        *)
(* whatever the chain position and the progress of the current agent.      *)
(***************************************************************************)
C3_TopicOverrideAmended ==
    ( /\ Routed
      /\ ~HasApproval(probe.user_message)
      /\ TopicAgents(probe.user_message) # {}
      /\ probe.current_agent \notin TopicAgents(probe.user_message) )
    => /\ probe.result # probe.current_agent
       /\ probe.result \in TopicAgents(probe.user_message)

\* requirements_evolver + "let's talk about the database schema" gives
\* data_architect, not ux_architect
C3_Witness ==
    /\ Routed
    /\ probe.current_agent = "requirements_evolver"
    /\ probe.user_message = DatabaseSchema
    /\ probe.result = "data_architect"

(***************************************************************************)
(* C4: a message with neither approval nor topic keyword, for a current    *)
(* agent that has a record with has_substance and is not the last of the   *)
(* chain, is routed to the next chain position.                            *)
(***************************************************************************)
C4_AdvanceOnSubstance ==
    ( /\ Routed
      /\ NoSignal(probe.user_message)
      /\ probe.current_agent \in ChainAgents \ { LastAgent }
      /\ probe.project_data.requirements[probe.current_agent].present
      /\ probe.project_data.requirements[probe.current_agent].has_substance )
    => probe.result = Successor(probe.current_agent)

\* ux_architect with a substantial record and no stored message of its own
C4_Witness ==
    /\ Routed
    /\ NoSignal(probe.user_message)
    /\ probe.current_agent = "ux_architect"
    /\ probe.project_data.requirements["ux_architect"].has_substance
    /\ probe.project_data.messages = << >>
    /\ probe.result = "ui_designer"

(***************************************************************************)
(* C5: when a turn starts with a message with neither approval nor topic   *)
(* keyword and the project's current agent, not the last of the chain, has *)
(* at least 2 replies stored in the project by the turn-handling path, the *)
(* turn is routed to the next chain position.                              *)
(***************************************************************************)
C5_AdvanceOnTurnCount ==
    [][ \A c \in Conns :
          ( /\ conn[c].pc = "idle"
            /\ conn'[c].pc = "executor"
            /\ NoSignal(conn'[c].user_message)
            /\ disk[conn'[c].project_id].active_agent \in ChainAgents \ { LastAgent }
            /\ ExchangedTurns(disk[conn'[c].project_id],
                              disk[conn'[c].project_id].active_agent) >= 2 )
          => conn'[c].agent = Successor(disk[conn'[c].project_id].active_agent)
      ]_vars

(***************************************************************************)
(* C6: a message with neither approval nor topic keyword, for a current    *)
(* agent with fewer than 2 stored messages and no substantial record, is   *)
(* routed to the current agent, and so is the same message once more.      *)
(***************************************************************************)
C6_NoSignalStays ==
    ( /\ Routed
      /\ NoSignal(probe.user_message)
      /\ MessageCount(probe.project_data.messages, probe.current_agent) < 2
      /\ ~probe.project_data.requirements[probe.current_agent].has_substance )
    => /\ probe.result = probe.current_agent
       /\ probe.calls = 2 => probe.again = probe.current_agent

\* ux_architect after one exchange that left a record without substance
C6_Witness ==
    /\ probe.calls = 2
    /\ NoSignal(probe.user_message)
    /\ probe.current_agent = "ux_architect"
    /\ probe.project_data.requirements["ux_architect"].present
    /\ MessageCount(probe.project_data.messages, "ux_architect") = 1
    /\ probe.again = "ux_architect"

(***************************************************************************)
(* C7: for a current agent that is not the last of the chain and a message *)
(* containing an approval keyword, the routing on every other project      *)
(* state (record of the agent, message history) gives the same agent as    *)
(* the routing made.                                                       *)
(***************************************************************************)
C7_ApprovalDeterministic ==
    ( /\ Routed
      /\ probe.current_agent \in ChainAgents \ { LastAgent }
      /\ HasApproval(probe.user_message) )
    => \A pd \in ProbeProjects(probe.current_agent) :
           determine_next_agent(probe.current_agent, probe.user_message, pd)
               = probe.result

\* an approval in capitals for api_designer, routed on a project without
\* record and history, while other project states have both
C7_Witness ==
    /\ Routed
    /\ probe.current_agent = "api_designer"
    /\ probe.user_message = Text(TRUE, { "yes" })
    /\ probe.project_data.messages = << >>
    /\ ~probe.project_data.requirements["api_designer"].present
    /\ probe.result = "devops"

(***************************************************************************)
(* C8: the turn log of a session never holds more than max_messages turns. *)
(***************************************************************************)
C8_LogBounded ==
    \A p \in Projects : Len(sessions[p].messages) <= max_messages

(***************************************************************************)
(* C9: the append that makes the turn count exceed max_messages leaves the *)
(* most recent max_messages / 2 turns: a suffix of the log before it,      *)
(* ending with the turn just appended.                                     *)
(***************************************************************************)
C9_CompactionKeepsRecent ==
    [][ \A p \in Projects :
          ( /\ Len(sessions[p].messages) = max_messages
            /\ sessions'[p].next_id = sessions[p].next_id + 1 )
          => LET before == sessions[p].messages
                 after == sessions'[p].messages
                 keep == max_messages \div 2
             IN  /\ Len(after) = keep
                 /\ after[keep].message_id = sessions[p].next_id
                 /\ \A i \in 1..(keep - 1) :
                        after[i] = before[max_messages - (keep - 1) + i]
      ]_vars

C11_TwoAgentsNotReady ==
    /\ ( /\ probe.calls >= 1
         /\ SubstantialAgents(probe.requirements)
                = { "requirements_evolver", "ux_architect" } )
       => /\ ~probe.status.can_generate
          /\ probe.status.substantial_agents = 2
          /\ probe.status.message = get_generation_status_message(FALSE, 2)
    /\ ( /\ probe.calls = 2
         /\ SubstantialAgents(probe.earlier)
                = { "requirements_evolver", "ux_architect" } )
       => probe.status.can_generate

(***************************************************************************)
(* C12: when a requirement map is eligible, the map that differs from it   *)
(* in one more agent's record being substantial is eligible too.           *)
(***************************************************************************)
C12_ReadinessMonotonic ==
    ( /\ probe.calls = 2
      /\ probe.earlier_status.can_generate )
    => /\ probe.status.can_generate
       /\ probe.status.substantial_agents = probe.earlier_status.substantial_agents + 1

\* eligible with requirements_evolver and one more; a third agent's record
\* is then made substantial
C12_Witness ==
    /\ probe.calls = 2
    /\ probe.earlier_status.can_generate
    /\ probe.earlier_status.substantial_agents = 2
    /\ probe.added = "devops"
    /\ probe.status.can_generate
    /\ probe.status.substantial_agents = 3

(***************************************************************************)
(* What the claims about a turn speak about: the step in which the         *)
(* executor call of connection c returns and the turn completes, and what  *)
(* the call gave.                                                          *)
(***************************************************************************)
TurnCompletes(c) == conn[c].pc = "executor" /\ conn'[c].pc = "idle"

ExecutorFailed(c) == out'[c].executor.kind \in { "failure", "raised" }

\* the text is a fixed apology sentence followed by the error text
EmbedsError(message, error) ==
    /\ Length(message) - Length(error) \in { ApologyPrefixLength, RaisedPrefixLength }
    /\ error.upper \/ error.phrases \subseteq message.phrases
    /\ message.ends_q = error.ends_q

(***************************************************************************)
(* C13: when the executor call of a turn reports failure or raises, the    *)
(* turn is answered with an agent_response, not an error: its message is   *)
(* an apology that embeds the error text and its agent is the agent        *)
(* selected for the turn.                                                  *)
(***************************************************************************)
C13_FailureBecomesApology ==
    [][ \A c \in Conns :
          ( TurnCompletes(c) /\ ExecutorFailed(c) )
          => /\ out'[c].type = "agent_response"
             /\ out'[c].agent = conn[c].agent
             /\ EmbedsError(out'[c].message, out'[c].executor.text)
      ]_vars

\* ux_architect was selected, the executor call raised, the client got the
\* short apology in ux_architect's name
C13_Witness ==
    \E c \in Conns :
        /\ out[c].executor = Result("raised", RaisedText)
        /\ out[c].type = "agent_response"
        /\ out[c].agent = "ux_architect"
        /\ out[c].message = RaisedApology(RaisedText)

(***************************************************************************)
(* C14: a turn whose executor call fails leaves the requirements map of    *)
(* its project as it was: no record is written for the turn.               *)
(***************************************************************************)
C14_FailureWritesNoRecord ==
    [][ \A c \in Conns :
          ( TurnCompletes(c) /\ ExecutorFailed(c) )
          => disk'[conn[c].project_id].requirements
                = disk[conn[c].project_id].requirements
      ]_vars

(***************************************************************************)
(* C15: a turn handled by agent A leaves as requirements[A] the one record *)
(* built from the turn's reply, whatever record A had, and leaves the      *)
(* record of every other agent as it was.                                  *)
(***************************************************************************)
C15_LastWriteWins ==
    [][ \A c \in Conns :
          ( TurnCompletes(c) /\ out'[c].type = "agent_response" )
          => LET p == conn[c].project_id
                 A == conn[c].agent
                 built == Record(has_substantial_content(out'[c].message, A),
                                 out'[c].executor.kind # "success")
             IN  /\ disk'[p].requirements[A] = built
                 /\ \A b \in AgentIds \ { A } :
                        disk'[p].requirements[b] = disk[p].requirements[b]
      ]_vars

\* an agent that had a substantial record got it replaced by the record of
\* a later reply without substance
C15_Witness ==
    \E c \in Conns, p \in Projects, A \in ChainAgents :
        /\ out[c].type = "agent_response" /\ out[c].project_id = p /\ out[c].agent = A
        /\ out[c].message = ShortReply
        /\ A \in agent_progress[p].agents
        /\ disk[p].requirements[A] = Record(FALSE, FALSE)
        /\ Len(disk[p].messages) = 4

(***************************************************************************)
(* C16: turns of one project are processed one after the other: no turn of *)
(* a project reads the project state for routing while an earlier turn of  *)
(* the project is suspended in the executor call, whatever connections the *)
(* two arrive on; so the agent of a turn is the stored active_agent when   *)
(* the turn writes its record.                                             *)
(***************************************************************************)
C16_TurnsSerialized ==
    [][ /\ \A c, d \in Conns :
             ( /\ c # d
               /\ conn[d].pc = "executor"
               /\ conn[c].pc = "idle" /\ conn'[c].pc = "executor" )
             => conn'[c].project_id # conn[d].project_id
        /\ \A c \in Conns :
             TurnCompletes(c) => conn[c].agent = disk[conn[c].project_id].active_agent
      ]_vars

(***************************************************************************)
(* What the frame claims speak about.                                      *)
(***************************************************************************)
\* the step changes what the server holds of project q
Changed(q) ==
    \/ disk'[q] # disk[q]
    \/ sessions'[q] # sessions[q]
    \/ orch_sessions'[q] # orch_sessions[q]
    \/ agent_progress'[q] # agent_progress[q]

\* the step is (part of) a request of connection c on project p
OperationOn(c, p) ==
    \/ conn[c].pc = "idle" /\ conn'[c].pc # "idle" /\ conn'[c].project_id = p
    \/ conn[c].pc # "idle" /\ conn'[c].pc = "idle" /\ conn[c].project_id = p
    \/ conn'[c] = conn[c] /\ out'[c] # out[c] /\ out'[c].project_id = p

\* seq is an initial part of longer
IsPrefix(seq, longer) ==
    Len(seq) <= Len(longer) /\ SubSeq(longer, 1, Len(seq)) = seq

(***************************************************************************)
(* C17: a step of a request on project P (new project, user turn, status   *)
(* check, generation request) changes nothing of any other project: its    *)
(* file, its two sessions and its progress set stay as they are; no step   *)
(* changes two projects.                                                   *)
(***************************************************************************)
C17_ProjectsIndependent ==
    [][ /\ \A c \in Conns, p \in Projects, q \in Projects :
             ( OperationOn(c, p) /\ q # p ) => ~Changed(q)
        /\ Cardinality({ q \in Projects : Changed(q) }) <= 1
      ]_vars

\* a status check on the second project while generation was started on
\* the first, after its turns
C17_Witness ==
    /\ \E c \in Conns : conn[c] = Building("p1")
    /\ disk["p2"].exists
    /\ \E c \in Conns : out[c].type = "generation_status" /\ out[c].project_id = "p2"
    /\ agent_progress["p1"].agents # {}
    /\ agent_progress["p2"].exists

(***************************************************************************)
(* C19: every step leaves the messages stored in a project file as an      *)
(* initial part of the messages stored afterwards.                         *)
(***************************************************************************)
C19_MessagesAppendOnly ==
    [][ \A p \in Projects :
          disk[p].exists => IsPrefix(disk[p].messages, disk'[p].messages)
      ]_vars

\* a project that had messages stored, its active agent set anew, records
\* written and generated files tracked
C19_Witness ==
    \E p \in Projects :
        /\ Len(disk[p].messages) = 4
        /\ disk[p].active_agent = "ux_architect"
        /\ disk[p].requirements["ux_architect"].present
        /\ disk[p].generated_files > 0

(***************************************************************************)
(* C20: the project builder is called only by a generation request whose   *)
(* readiness check on the stored project gives can_generate = true, and    *)
(* generation_started is sent then; a request whose check gives false is   *)
(* answered generation_failed and changes nothing; a user turn never       *)
(* starts generation and its should_generate is false; files are tracked   *)
(* only when a started generation returns.                                 *)
(***************************************************************************)
C20_GenerationGated ==
    [][ \A c \in Conns :
          /\ ( conn[c].pc # "builder" /\ conn'[c].pc = "builder" )
             => /\ conn[c].pc = "idle"
                /\ disk[conn'[c].project_id].exists
                /\ can_generate_code(disk[conn'[c].project_id]).can_generate
                /\ out'[c].type = "generation_started"
          /\ ( out'[c] # out[c] /\ out'[c].type = "generation_started" )
             => conn'[c].pc = "builder"
          /\ \A p \in Projects :
               ( /\ conn[c].pc = "idle" /\ conn'[c] = conn[c]
                 /\ out'[c] # out[c]
                 /\ out'[c].type \in { "generation_failed", "generation_started" }
                 /\ out'[c].project_id = p )
               => /\ ~can_generate_code(disk[p]).can_generate
                  /\ out'[c].type = "generation_failed"
                  /\ disk' = disk
          /\ TurnCompletes(c) => ~out'[c].should_generate
          /\ \A p \in Projects :
               disk'[p].generated_files # disk[p].generated_files
               => \E d \in Conns : conn[d] = Building(p) /\ conn'[d].pc = "idle"
      ]_vars

\* generation was refused with one substantial agent and started with two
C20_Witness ==
    /\ out["c1"].type = "generation_failed"
    /\ out["c1"].substantial_agents = 1
    /\ conn["c2"].pc = "builder"
    /\ out["c2"].type = "generation_started"
    /\ out["c2"].substantial_agents = 2

(***************************************************************************)
(* What the next user turn of a project does up to its executor call, from *)
(* the project's session s, its orchestrator session os and its file f:    *)
(* whether it fails, and the agent it selects.                             *)
(***************************************************************************)
NextTurn(s, os, f, m) ==
    LET stored == storage_add_message(s, f, "user", NoAgent, NoAgent)
        routed == route_begin(os, stored.file, m)
    IN  [ raised |-> stored.raised,
          agent |-> IF stored.raised THEN NoAgent ELSE routed.agent ]

(***************************************************************************)
(* C18: when the session of a project is discarded, the project's stored   *)
(* requirement records stay as they are, the next turn creates the session *)
(* anew without an error, and the next turn and the next readiness check   *)
(* decide what they would have decided with the session kept.              *)
(***************************************************************************)
C18_SessionLossHarmless ==
    [][ \A p \in Projects :
          ( disk[p].exists /\ sessions[p].exists /\ ~sessions'[p].exists )
          => /\ disk'[p].requirements = disk[p].requirements
             /\ can_generate_code(disk'[p]) = can_generate_code(disk[p])
             /\ \A m \in SampleMessages :
                    LET kept == NextTurn(sessions[p], orch_sessions[p], disk[p], m)
                        lost == NextTurn(sessions'[p], orch_sessions'[p], disk'[p], m)
                    IN  /\ ~lost.raised
                        /\ lost = kept
      ]_vars

(***************************************************************************)
(* SpecChat: one client that creates projects and talks to them turn after *)
(* turn, each turn completed before the next message is sent, up to        *)
(* MaxChatLog log entries in all; the executor may succeed with a          *)
(* short or a long reply, fail or raise.  The client may ask for the       *)
(* generation status at any time between turns.                            *)
(***************************************************************************)
MaxChatLog == 6

\* "back to the requirements"
BackToRequirements == Text(FALSE, { "requirements" })

ChatMessages == { Hello, LooksGoodProceed, BackToRequirements }

ChatNext ==
    \/ \E p \in Projects : NewProject("c1", p)
    \/ \E p \in Projects, m \in ChatMessages :
         /\ disk[p].exists
         /\ Appends + 2 <= MaxChatLog
         /\ UserMessage("c1", p, m)
    \/ \E o \in OpsOutcomes : ExecutorReturn("c1", o[1], o[2])
    \/ \E p \in Projects : CheckStatus("c1", p)

SpecChat == Init /\ [][ChatNext]_vars

(***************************************************************************)
(* SpecStart: start_conversation applied to a project in any state a       *)
(* conversation can have left it in: any active agent, any records, any    *)
(* progress set, with or without a session of the orchestrator's storage,  *)
(* and also to a project without file.                                     *)
(***************************************************************************)
StartProject == "p1"

StartInit ==
    \E e \in BOOLEAN, a \in AgentIds, r \in ProbeRecords, h \in BOOLEAN,
       g \in SUBSET ChainAgents :
        /\ disk = [ p \in Projects |->
                      IF p = StartProject /\ e
                      THEN [ NewFile EXCEPT
                               !.active_agent = a,
                               !.requirements = [ EmptyRequirements EXCEPT ![a] = r ] ]
                      ELSE NoFile ]
        /\ sessions = [ p \in Projects |->
                          IF p = StartProject /\ e
                          THEN get_session(NoSession) ELSE NoSession ]
        /\ orch_sessions = [ p \in Projects |->
                               IF p = StartProject /\ e /\ h
                               THEN update_agent_state(get_session(NoSession), a)
                               ELSE NoSession ]
        /\ agent_progress = [ p \in Projects |->
                                IF p = StartProject /\ e
                                THEN [ exists |-> TRUE, agents |-> g ]
                                ELSE [ exists |-> FALSE, agents |-> {} ] ]
        /\ conn = [ c \in Conns |-> Idle ]
        /\ out = [ c \in Conns |-> Silent ]
        /\ probe = [ calls |-> 0, active_agent |-> a, agents |-> g ]

StartConversation ==
    /\ probe.calls = 0
    /\ LET p == StartProject
           started == start_conversation(orch_sessions[p], disk[p], agent_progress[p])
       IN  /\ disk' = [ disk EXCEPT ![p] = started.file ]
           /\ orch_sessions' = [ orch_sessions EXCEPT ![p] = started.session ]
           /\ agent_progress' = [ agent_progress EXCEPT ![p] = started.progress ]
    /\ probe' = [ probe EXCEPT !.calls = 1 ]
    /\ UNCHANGED << sessions, conn, out >>

StartNext == StartConversation

SpecStart == StartInit /\ [][StartNext]_vars

(***************************************************************************)
(* SpecMalformed: the routing and the classifier called with malformed     *)
(* input: an empty message, a message that is a JSON null or number, an    *)
(* agent id that is in no table, a response that is None, empty or only    *)
(* white space.                                                            *)
(***************************************************************************)
UnknownAgent == "project_manager"

EmptyMessage == Text(FALSE, {})

MalformedMessages == { EmptyMessage, None, Number }

WhiteSpace == 3

MalformedResponses ==
    { None, Reply(FALSE, {}, 0, 0, FALSE), Reply(FALSE, {}, WhiteSpace, 0, FALSE) }

MalformedProjects(a) ==
    IF a \in AgentIds THEN ProbeProjects(a)
    ELSE { [ active_agent |-> a, requirements |-> EmptyRequirements,
             messages |-> History(n, a) ] : n \in 0..MaxHist }

MalformedInit ==
    /\ SysInit
    /\ \E a \in AgentIds \cup { UnknownAgent } :
         \E pd \in MalformedProjects(a) :
           probe = [ current_agent |-> a, project_data |-> pd,
                     routed |-> FALSE, result |-> NoAgent,
                     classified |-> FALSE, substantial |-> FALSE ]

RouteMalformed(m) ==
    /\ ~probe.routed
    /\ probe' = [ probe EXCEPT
                    !.routed = TRUE,
                    !.result = determine_next_agent(probe.current_agent, m,
                                                    probe.project_data) ]
    /\ UNCHANGED sysvars

ClassifyMalformed(r) ==
    /\ ~probe.classified
    /\ r \in MalformedResponses \/ probe.current_agent = UnknownAgent
    /\ probe' = [ probe EXCEPT
                    !.classified = TRUE,
                    !.substantial = has_substantial_content(r, probe.current_agent) ]
    /\ UNCHANGED sysvars

MalformedNext ==
    \/ \E m \in MalformedMessages : RouteMalformed(m)
    \/ \E r \in MalformedResponses \cup { TechnicalReply } : ClassifyMalformed(r)

SpecMalformed == MalformedInit /\ [][MalformedNext]_vars

(***************************************************************************)
(* SpecClassify: the classifier called for every agent with replies of     *)
(* every length up to MaxReplyLength, with and without surrounding white   *)
(* space, in small letters or in capitals, ending with a question mark or  *)
(* not, containing up to MaxMarks technical terms or question openers;     *)
(* then called again with the same reply made longer.  A reply that        *)
(* contains a term is at least MarkedMinLength characters long (the        *)
(* longest term, 'could you tell me', has 17).                             *)
(***************************************************************************)
MaxReplyLength == 81
MaxMarks == 1
MarkedMinLength == 20

TechnicalAgents == AgentIds \ EarlyAgents

AllMarks ==
    Range(question_openers)
      \cup UNION { Range(technical_indicators(a)) : a \in TechnicalAgents }

\* terms that occur inside another term
SubMarks(k) ==
    CASE k = "database"      -> { "data" }
      [] k = "functionality" -> { "function" }
      [] k = "app.route"     -> { "route" }
      [] OTHER               -> { }

RECURSIVE MarkSets(_)
MarkSets(n) ==
    IF n = 0 THEN { {} }
    ELSE LET prev == MarkSets(n - 1)
         IN  prev \cup { S \cup {k} \cup SubMarks(k) : S \in prev, k \in AllMarks }

ClassifyInit ==
    /\ SysInit
    /\ \E a \in AgentIds, u \in BOOLEAN, S \in MarkSets(MaxMarks),
          pad \in { 0, WhiteSpace }, len \in 0..MaxReplyLength, q \in BOOLEAN :
         /\ S # {} => len >= MarkedMinLength
         /\ q => len >= 1
         /\ probe = [ agent_name |-> a, response |-> Reply(u, S, pad, len, q),
                      calls |-> 0, substantial |-> FALSE,
                      longer |-> 0, longer_substantial |-> FALSE ]

Classify ==
    /\ probe.calls = 0
    /\ probe' = [ probe EXCEPT
                    !.calls = 1,
                    !.substantial =
                       has_substantial_content(probe.response, probe.agent_name) ]
    /\ UNCHANGED sysvars

\* the same reply with more text that contains no further term
ClassifyLonger(n) ==
    /\ probe.calls = 1
    /\ n > probe.response.len
    /\ probe' = [ probe EXCEPT
                    !.calls = 2,
                    !.longer = n,
                    !.longer_substantial =
                       has_substantial_content([ probe.response EXCEPT !.len = n ],
                                               probe.agent_name) ]
    /\ UNCHANGED sysvars

ClassifyNext ==
    \/ Classify
    \/ \E n \in { TechnicalMinLength, MaxReplyLength } : ClassifyLonger(n)

SpecClassify == ClassifyInit /\ [][ClassifyNext]_vars

(***************************************************************************)
(* C21: for the current agent devops and a message containing an approval  *)
(* keyword, the routing gives devops, whatever topic keywords the message  *)
(* contains.                                                               *)
(***************************************************************************)
C21_ApprovalOverridesAtLastAgent ==
    ( /\ Routed
      /\ probe.current_agent = LastAgent
      /\ HasApproval(probe.user_message) )
    => probe.result = LastAgent

(***************************************************************************)
(* What the tie claims speak about: the agent among S that comes first in  *)
(* the sequence order.                                                     *)
(***************************************************************************)
EarliestIn(order, S) ==
    order[CHOOSE i \in 1..Len(order) :
            /\ order[i] \in S
            /\ \A j \in 1..Len(order) : order[j] \in S => i <= j]

(***************************************************************************)
(* C22 as claimed: a message without approval keyword that contains        *)
(* keywords of several agents is routed to the one of them that comes      *)
(* first in the chain requirements_evolver, ux_architect, ui_designer,     *)
(* frontend_engineer, data_architect, api_designer, devops.                *)
(***************************************************************************)
C22_TiesByChainOrder ==
    ( /\ Routed
      /\ ~HasApproval(probe.user_message)
      /\ Cardinality(TopicAgents(probe.user_message)) >= 2 )
    => probe.result = EarliestIn(AGENT_CHAIN, TopicAgents(probe.user_message))

(***************************************************************************)
(* C22 amended: a message without approval keyword that contains keywords  *)
(* of several agents is routed to the one of them that comes first in the  *)
(* order of the keyword table: requirements_evolver, ux_architect,         *)
(* ui_designer, data_architect, api_designer, frontend_engineer, devops.   *)
(***************************************************************************)
C22_TiesByKeywordTableOrder ==
    ( /\ Routed
      /\ ~HasApproval(probe.user_message)
      /\ Cardinality(TopicAgents(probe.user_message)) >= 2 )
    => probe.result = EarliestIn(KeywordOrder, TopicAgents(probe.user_message))

\* "store it with javascript" goes to data_architect, not frontend_engineer
C22_Witness ==
    /\ Routed
    /\ probe.user_message = Text(FALSE, { "javascript", "store" })
    /\ probe.current_agent = "ui_designer"
    /\ probe.result = "data_architect"

(***************************************************************************)
(* C23: after start_conversation on an existing project the active agent   *)
(* of the project is requirements_evolver and its progress set is empty,   *)
(* whatever the active agent and the progress set were before.             *)
(***************************************************************************)
C23_StartResets ==
    ( probe.calls = 1 /\ disk[StartProject].exists )
    => /\ disk[StartProject].active_agent = "requirements_evolver"
       /\ agent_progress[StartProject] = [ exists |-> TRUE, agents |-> {} ]

\* a project that had reached devops with three agents in its progress set
C23_Witness ==
    /\ probe.calls = 1
    /\ disk[StartProject].exists
    /\ probe.active_agent = "devops"
    /\ Cardinality(probe.agents) = 3
    /\ disk[StartProject].active_agent = "requirements_evolver"
    /\ agent_progress[StartProject].agents = {}

(***************************************************************************)
(* C24: for an empty message, a message that is not text, an agent id      *)
(* that is in no table, the routing gives the current agent; for an empty  *)
(* or missing response, or such an agent id, the classifier gives false;   *)
(* neither raises.                                                         *)
(***************************************************************************)
C24_MalformedInputIsAbsorbed ==
    /\ probe.routed => probe.result = probe.current_agent
    /\ probe.classified => ~probe.substantial

(***************************************************************************)
(* What the classifier claims speak about: the length of the reply without *)
(* surrounding white space, whether it contains a technical term of the    *)
(* agent (in small letters or capitals), whether it is a short pure        *)
(* question.                                                               *)
(***************************************************************************)
TrimmedLength(r) == r.len

HasDomainKeyword(r, a) == Range(technical_indicators(a)) \cap r.phrases # {}

ShortPureQuestion(r) ==
    /\ r.len < QuestionMaxLength
    /\ r.ends_q
    /\ Range(question_openers) \cap r.phrases # {}

(***************************************************************************)
(* C25: for a technical agent a reply is accepted exactly if its trimmed   *)
(* length is at least 40 and it contains a technical term of that agent;   *)
(* so a reply with such a term that was rejected for being shorter than 40 *)
(* is accepted once it is 40 or longer, and a reply without such a term is *)
(* rejected at every length.                                               *)
(***************************************************************************)
C25_TechnicalNeedsLengthAndKeyword ==
    probe.agent_name \in TechnicalAgents =>
      /\ probe.calls >= 1 =>
            ( probe.substantial <=>
                /\ TrimmedLength(probe.response) >= TechnicalMinLength
                /\ HasDomainKeyword(probe.response, probe.agent_name) )
      /\ probe.calls = 2 =>
            ( probe.longer_substantial <=>
                HasDomainKeyword(probe.response, probe.agent_name) )

\* 39 characters about an ENDPOINT are rejected, 40 are accepted
C25_Witness ==
    /\ probe.calls = 2
    /\ probe.agent_name = "api_designer"
    /\ probe.response = Reply(TRUE, { "endpoint" }, WhiteSpace, 39, FALSE)
    /\ ~probe.substantial
    /\ probe.longer = TechnicalMinLength
    /\ probe.longer_substantial

(***************************************************************************)
(* C26: a reply whose trimmed length is below 25 is rejected for every     *)
(* agent; a longer reply of an early agent is accepted exactly if its      *)
(* trimmed length is at least 30 and it is not a pure question shorter     *)
(* than 80 characters that ends with '?' and contains a question opener.   *)
(***************************************************************************)
C26_EarlyAcceptsAllButShortQuestions ==
    probe.calls >= 1 =>
      /\ TrimmedLength(probe.response) < MinLength => ~probe.substantial
      /\ ( /\ probe.agent_name \in EarlyAgents
           /\ TrimmedLength(probe.response) >= MinLength )
         => ( probe.substantial <=>
                /\ TrimmedLength(probe.response) >= EarlyMinLength
                /\ ~ShortPureQuestion(probe.response) )

\* "Could you tell me ...?" is rejected with 79 characters and accepted
\* with 81
C26_Witness ==
    /\ probe.calls = 2
    /\ probe.agent_name = "requirements_evolver"
    /\ probe.response = Reply(FALSE, { "could you tell me" }, 0, 79, TRUE)
    /\ ~probe.substantial
    /\ probe.longer = MaxReplyLength
    /\ probe.longer_substantial

(***************************************************************************)
(* C27: with an executor that always succeeds, a user turn on an existing  *)
(* project is never answered with an error response: neither the step that *)
(* takes the user message nor the step that completes the turn leaves an   *)
(* error on the connection, however long the log of the project is.        *)
(***************************************************************************)
C27_TurnsAlwaysAnswered ==
    [][ \A c \in Conns : \A p \in Projects :
          ( /\ disk[p].exists
            /\ \/ conn[c].pc = "executor" /\ conn[c].project_id = p
               \/ conn[c].pc = "idle" /\ sessions'[p].next_id > sessions[p].next_id
            /\ out'[c] # out[c] )
          => out'[c].type = "agent_response"
      ]_vars

(***************************************************************************)
(* C28: once the generation status of a project says can_generate, it says *)
(* so after every further step of the conversation.                        *)
(***************************************************************************)
C28_EligibilityStable ==
    [][ \A p \in Projects :
          ( disk[p].exists /\ can_generate_code(disk[p]).can_generate )
          => can_generate_code(disk'[p]).can_generate
      ]_vars

(***************************************************************************)
(* C28 amended: once the generation status of a project says can_generate, *)
(* it says so after every further step of the conversation other than the  *)
(* completion of a turn on that project whose reply is classified as not   *)
(* substantial.                                                            *)
(***************************************************************************)
C28_EligibilityStableUnderSubstance ==
    [][ \A p \in Projects :
          ( disk[p].exists /\ can_generate_code(disk[p]).can_generate )
          => \/ can_generate_code(disk'[p]).can_generate
             \/ \E c \in Conns :
                  /\ TurnCompletes(c)
                  /\ conn[c].project_id = p
                  /\ ~has_substantial_content(out'[c].message, conn[c].agent)
      ]_vars

\* three turns with substantial replies of three agents, the project being
\* ready after the second
C28_Witness ==
    /\ Len(disk["p1"].messages) = 6
    /\ Cardinality(SubstantialAgents(disk["p1"].requirements)) = 3
    /\ conn["c1"].pc = "idle"
    /\ out["c1"].type = "agent_response"
    /\ out["c1"].project_id = "p1"
    /\ out["c1"].can_generate

(***************************************************************************)
(* C29: the agents counted as substantial are agents whose last executor   *)
(* call succeeded, so a project can generate only if some executor call    *)
(* on it succeeded.                                                        *)
(***************************************************************************)
C29_EligibilityNeedsRealOutput ==
    \A p \in Projects :
      /\ \A a \in SubstantialAgents(disk[p].requirements) :
             ~disk[p].requirements[a].failed
      /\ can_generate_code(disk[p]).can_generate
           => \E a \in AgentIds : /\ disk[p].requirements[a].present
                                  /\ ~disk[p].requirements[a].failed

(***************************************************************************)
(* C30: in every reachable state the server's storage and the              *)
(* orchestrator's storage hold a session only for projects whose file      *)
(* exists.                                                                 *)
(***************************************************************************)
C30_SessionsOnlyForProjects ==
    \A p \in Projects :
      ( sessions[p].exists \/ orch_sessions[p].exists ) => disk[p].exists

====
